---- MODULE Spec2Model ----
(***************************************************************************)
(* Markdown Notes CLI (notes.go): the note store (one JSON file per note   *)
(* in notes_db/), its atomic-write protocol, id assignment and tagging.    *)
(*                                                                         *)
(* Text is modelled by TLA+ strings.  Two characters stand for what a      *)
(* TLA+ string cannot hold: BadByte for a byte that is not valid UTF-8     *)
(* and ReplacementChar for U+FFFD.  A file is a sequence of chunks: one    *)
(* os.WriteFile call writes the serialized note in NChunks write(2) calls. *)
(***************************************************************************)
EXTENDS Integers, Sequences, FiniteSets, TLC

\* ------------------------------------------------------------------ bounds
\* Largest note id the CLI processes create (add is not started beyond it).
MaxId == 3
\* Largest note id the store-level client saves.
MaxStoreId == 2
\* Number of write(2) calls one os.WriteFile is split into.
NChunks == 2

\* --------------------------------------------------------------- constants
dbDir == "notes_db"

BadByte == "^"
ReplacementChar == "?"

\* ------------------------------------------------------------ text helpers
Char(s, i) == SubSeq(s, i, i)

HasSuffix(s, suffix) ==
  /\ Len(s) >= Len(suffix)
  /\ SubSeq(s, Len(s) - Len(suffix) + 1, Len(s)) = suffix

\* strings.TrimSpace, with the space as the only white space character
RECURSIVE TrimLeft(_)
TrimLeft(s) ==
  IF Len(s) > 0 /\ Char(s, 1) = " " THEN TrimLeft(SubSeq(s, 2, Len(s))) ELSE s

RECURSIVE TrimRight(_)
TrimRight(s) ==
  IF Len(s) > 0 /\ Char(s, Len(s)) = " "
  THEN TrimRight(SubSeq(s, 1, Len(s) - 1)) ELSE s

TrimSpace(s) == TrimRight(TrimLeft(s))

\* strings.Join
RECURSIVE Join(_, _)
Join(elems, sep) ==
  IF Len(elems) = 0 THEN ""
  ELSE IF Len(elems) = 1 THEN elems[1]
  ELSE elems[1] \o sep \o Join(Tail(elems), sep)

\* strconv.Itoa for n >= 0 and the zero padding of the %04d verb
DigitChar(d) == Char("0123456789", d + 1)

RECURSIVE Itoa(_)
Itoa(n) == IF n < 10 THEN DigitChar(n) ELSE Itoa(n \div 10) \o DigitChar(n % 10)

RECURSIVE PadZero(_, _)
PadZero(s, width) == IF Len(s) >= width THEN s ELSE PadZero("0" \o s, width)

\* strconv.Atoi on unsigned decimal text: [ok, val]
DigitVal(c) == CHOOSE d \in 0..9 : DigitChar(d) = c
IsDigit(c) == \E d \in 0..9 : DigitChar(d) = c

RECURSIVE AtoiLoop(_, _, _)
AtoiLoop(s, i, acc) ==
  IF i > Len(s) THEN [ok |-> TRUE, val |-> acc]
  ELSE IF ~IsDigit(Char(s, i)) THEN [ok |-> FALSE, val |-> 0]
  ELSE AtoiLoop(s, i + 1, 10 * acc + DigitVal(Char(s, i)))

Atoi(s) == IF Len(s) = 0 THEN [ok |-> FALSE, val |-> 0] ELSE AtoiLoop(s, 1, 0)

\* -------------------------------------------------------------------- Note
\* time.Time: seconds, whether a monotonic reading is attached, location
TimeNow(sec) == [sec |-> sec, mono |-> TRUE, loc |-> "Local"]
TimeUTC(t) == [sec |-> t.sec, mono |-> FALSE, loc |-> "UTC"]
ZeroTime == [sec |-> 0, mono |-> FALSE, loc |-> "UTC"]

Note(id, title, body, tags, created) ==
  [ID |-> id, Title |-> title, Body |-> body, Tags |-> tags, Created |-> created]

NoNote == Note(0, "", "", <<>>, ZeroTime)

\* ------------------------------------------------------ JSON serialization
\* encoding/json string encoding: invalid UTF-8 is replaced by U+FFFD, the
\* quote and (HTML escaping is on) the angle bracket are escaped.
RECURSIVE EncodeString(_)
EncodeString(s) ==
  IF Len(s) = 0 THEN ""
  ELSE LET c == Char(s, 1)
           e == IF c = BadByte THEN "\\ufffd"
                ELSE IF c = "<" THEN "\\u003c"
                ELSE IF c = "\"" THEN "\\\""
                ELSE c
       IN e \o EncodeString(SubSeq(s, 2, Len(s)))

\* encoding/json string decoding of what EncodeString produces
RECURSIVE DecodeString(_)
DecodeString(e) ==
  IF Len(e) = 0 THEN ""
  ELSE IF Char(e, 1) # "\\" THEN Char(e, 1) \o DecodeString(SubSeq(e, 2, Len(e)))
  ELSE IF Char(e, 2) = "u"
       THEN LET hex == SubSeq(e, 3, 6)
                c == IF hex = "fffd" THEN ReplacementChar
                     ELSE IF hex = "003c" THEN "<"
                     ELSE ReplacementChar
            IN c \o DecodeString(SubSeq(e, 7, Len(e)))
  ELSE Char(e, 2) \o DecodeString(SubSeq(e, 3, Len(e)))

\* time.Time.MarshalJSON (RFC 3339): the monotonic reading is not written
EncodeTime(t) == [sec |-> t.sec, zone |-> IF t.loc = "UTC" THEN "Z" ELSE "+01:00"]
\* time.Time.UnmarshalJSON
DecodeTime(e) ==
  [sec |-> e.sec, mono |-> FALSE, loc |-> IF e.zone = "Z" THEN "UTC" ELSE "Local"]

\* json.MarshalIndent(n, "", "  "): the JSON document of a note
Marshal(n) ==
  [id |-> n.ID,
   title |-> EncodeString(n.Title),
   body |-> EncodeString(n.Body),
   tags |-> [i \in 1..Len(n.Tags) |-> EncodeString(n.Tags[i])],
   created |-> EncodeTime(n.Created)]

NoDoc == Marshal(NoNote)

\* The bytes of a document, in the NChunks pieces WriteFile writes them in.
FileBytes(doc) == [k \in 1..NChunks |-> [doc |-> doc, k |-> k]]
\* Bytes that belong to no document: a hole, or a foreign file's content.
Hole == [doc |-> NoDoc, k |-> 0]
Garbage == <<Hole>>

\* json.Unmarshal(b, &n): [ok, note]; only the complete bytes of one document
\* parse (a proper prefix of a JSON object is no JSON value; bytes mixed from
\* two documents are taken not to parse)
Unmarshal(data) ==
  IF /\ Len(data) = NChunks
     /\ \A k \in 1..NChunks : data[k].k = k /\ data[k].doc = data[1].doc
  THEN LET d == data[1].doc
       IN [ok |-> TRUE,
           note |-> Note(d.id, DecodeString(d.title), DecodeString(d.body),
                         [i \in 1..Len(d.tags) |-> DecodeString(d.tags[i])],
                         DecodeTime(d.created))]
  ELSE [ok |-> FALSE, note |-> NoNote]

\* --------------------------------------------------------------- the store
\* A directory entry's content: a directory, or a regular file's bytes.
DirEntry == [isDir |-> TRUE, data |-> <<>>]
File(data) == [isDir |-> FALSE, data |-> data]

notePath(id) == dbDir \o "/" \o PadZero(Itoa(id), 4) \o ".json"

\* The path saveNote writes the new content to before renaming it into place.
tmpPath_InPlace(id) == notePath(id)
tmpPath(id) == notePath(id) \o ".tmp"

EmptyDir == [nm \in {} |-> DirEntry]
Put(dir, nm, entry) == [x \in DOMAIN dir \cup {nm} |-> IF x = nm THEN entry ELSE dir[x]]
Remove(dir, nm) == [x \in DOMAIN dir \ {nm} |-> dir[x]]
\* What is at a path: [exists, entry]
Lookup(dir, nm) ==
  IF nm \in DOMAIN dir THEN [exists |-> TRUE, entry |-> dir[nm]]
  ELSE [exists |-> FALSE, entry |-> File(<<>>)]

\* os.Rename(from, to) of an existing regular file: the entry moves, replacing
\* whatever regular file was at the target, in one step.
RenameNoReplace(dir, from, to) ==
  IF to \in DOMAIN dir THEN Remove(dir, from)
  ELSE Put(Remove(dir, from), to, dir[from])
Rename(dir, from, to) == Put(Remove(dir, from), to, dir[from])

\* A write(2) of one chunk at chunk offset k of a file's bytes.
WriteAt(data, k, chunk) ==
  [i \in 1..(IF Len(data) > k THEN Len(data) ELSE k) |->
     IF i = k THEN chunk ELSE IF i <= Len(data) THEN data[i] ELSE Hole]

\* os.ReadFile + json.Unmarshal of one directory entry: [ok, err, note]
ReadNote(dir, nm) ==
  IF nm \notin DOMAIN dir THEN [ok |-> FALSE, err |-> "NotFound", note |-> NoNote]
  ELSE IF dir[nm].isDir THEN [ok |-> FALSE, err |-> "ReadError", note |-> NoNote]
  ELSE LET u == Unmarshal(dir[nm].data)
       IN IF u.ok THEN [ok |-> TRUE, err |-> "", note |-> u.note]
          ELSE [ok |-> FALSE, err |-> "CorruptRecord", note |-> NoNote]

loadNote(dir, id) == ReadNote(dir, notePath(id))

\* The entries loadAll keeps: regular files named *.json whose content parses.
Loadable(dir) ==
  {nm \in DOMAIN dir :
     /\ ~dir[nm].isDir
     /\ HasSuffix(nm, ".json")
     /\ ReadNote(dir, nm).ok}

\* sort.Slice by ID (not stable: entries with equal ids come in some order)
RECURSIVE SortByID(_, _)
SortByID(dir, names) ==
  IF names = {} THEN <<>>
  ELSE LET m == CHOOSE nm \in names :
                  \A o \in names : ReadNote(dir, nm).note.ID <= ReadNote(dir, o).note.ID
       IN <<ReadNote(dir, m).note>> \o SortByID(dir, names \ {m})

loadAll(dir) == SortByID(dir, Loadable(dir))

RECURSIVE nextIDLoop(_, _)
nextIDLoop(notes, max) ==
  IF notes = <<>> THEN max + 1
  ELSE nextIDLoop(Tail(notes), IF Head(notes).ID > max THEN Head(notes).ID ELSE max)

nextID_Count(notes) == Len(notes) + 1
nextID_NoIncrement(notes) == nextIDLoop(notes, 0) - 1
nextID(notes) == nextIDLoop(notes, 0)

\* cmdTag: append the trimmed, non-empty new tags ...
RECURSIVE AppendTags(_, _)
AppendTags(tags, newTags) ==
  IF newTags = <<>> THEN tags
  ELSE LET t == TrimSpace(Head(newTags))
       IN AppendTags(IF t = "" THEN tags ELSE Append(tags, t), Tail(newTags))

\* ... then dedupe while preserving order
RECURSIVE DedupeLoop(_, _, _)
DedupeLoop(tags, seen, res) ==
  IF tags = <<>> THEN res
  ELSE IF Head(tags) \in seen THEN DedupeLoop(Tail(tags), seen, res)
  ELSE DedupeLoop(Tail(tags), seen \cup {Head(tags)}, Append(res, Head(tags)))

Dedupe(tags) == DedupeLoop(tags, {}, <<>>)

AddTags(tags, newTags) == Dedupe(AppendTags(tags, newTags))

\* ------------------------------------------------------------------- state
\* Processes: invocations of the program run by 1 and 2, a reader runs as 3.
Procs == {1, 2, 3}

NoFd == ""
Unlinked == "(unlinked)"

VARIABLES
  fs,      \* notes_db: file name -> directory entry
  pc,      \* where each process is: idle (not started), edit, open, write,
           \* rename, done (main has the command's result)
  cmd,     \* the command each process runs, or ran last
  argv,    \* its arguments (os.Args[2:])
  id,      \* cmdAdd's id, the id parsed by cmdTag and cmdView, the id saved
  title,   \* cmdAdd's title
  note,    \* saveNote's n
  fd,      \* the name the file a process has open for writing is linked at
  off,     \* chunks WriteFile has written
  prior,   \* what was at notePath(n.ID) when saveNote was entered
  result,  \* how the last command of each process ended
  hist     \* history: the notes the client saved, the ids it called Save with,
           \* the ids add assigned, the process that renamed last onto each id

vars == <<fs, pc, cmd, argv, id, title, note, fd, off, prior, result, hist>>

Result(ok, err, out, notes) == [ok |-> ok, err |-> err, out |-> out, notes |-> notes]
Failure(err) == Result(FALSE, err, "", <<>>)

Init ==
  /\ fs = EmptyDir
  /\ pc = [p \in Procs |-> "idle"]
  /\ cmd = [p \in Procs |-> "none"]
  /\ argv = [p \in Procs |-> <<>>]
  /\ id = [p \in Procs |-> 0]
  /\ title = [p \in Procs |-> ""]
  /\ note = [p \in Procs |-> NoNote]
  /\ fd = [p \in Procs |-> NoFd]
  /\ off = [p \in Procs |-> 0]
  /\ prior = [p \in Procs |-> Lookup(EmptyDir, "")]
  /\ result = [p \in Procs |-> Result(TRUE, "", "", <<>>)]
  /\ hist = [saved |-> [i \in {} |-> NoNote], called |-> {}, dup |-> FALSE,
             assigned |-> {}, reused |-> {}, last |-> [i \in {} |-> 0]]

\* A command of p starts: its locals are fresh.
Begin(p, c, args) ==
  /\ pc[p] = "idle"
  /\ cmd' = [cmd EXCEPT ![p] = c]
  /\ argv' = [argv EXCEPT ![p] = args]

\* A command of p returns to main, which prints the error if there is one.
Return(p, r) ==
  /\ pc' = [pc EXCEPT ![p] = "done"]
  /\ result' = [result EXCEPT ![p] = r]

\* The process exits (status 1 after an error); the next invocation is a new
\* process.
Exit(p) ==
  /\ pc[p] = "done"
  /\ pc' = [pc EXCEPT ![p] = "idle"]
  /\ cmd' = [cmd EXCEPT ![p] = "none"]
  /\ argv' = [argv EXCEPT ![p] = <<>>]
  /\ id' = [id EXCEPT ![p] = 0]
  /\ title' = [title EXCEPT ![p] = ""]
  /\ note' = [note EXCEPT ![p] = NoNote]
  /\ fd' = [fd EXCEPT ![p] = NoFd]
  /\ off' = [off EXCEPT ![p] = 0]
  /\ prior' = [prior EXCEPT ![p] = Lookup(EmptyDir, "")]
  /\ result' = [result EXCEPT ![p] = Result(TRUE, "", "", <<>>)]
  /\ UNCHANGED <<fs, hist>>

\* saveNote(n) is entered.
EnterSave(p, n) ==
  /\ note' = [note EXCEPT ![p] = n]
  /\ prior' = [prior EXCEPT ![p] = Lookup(fs, notePath(n.ID))]
  /\ off' = [off EXCEPT ![p] = 0]
  /\ pc' = [pc EXCEPT ![p] = "open"]

\* ---------------------------------------------------------------- saveNote
\* ensureDir and MarshalIndent succeed; os.WriteFile opens tmp with
\* O_WRONLY|O_CREATE|O_TRUNC.
SaveOpen(p) ==
  /\ pc[p] = "open"
  /\ LET tmp == tmpPath(note[p].ID)
     IN IF tmp \in DOMAIN fs /\ fs[tmp].isDir
        THEN /\ Return(p, Failure("open: StorageUnavailable"))
             /\ UNCHANGED <<fs, fd>>
        ELSE /\ fs' = Put(fs, tmp, File(<<>>))
             /\ fd' = [fd EXCEPT ![p] = tmp]
             /\ pc' = [pc EXCEPT ![p] = "write"]
             /\ UNCHANGED result
  /\ UNCHANGED <<cmd, argv, id, title, note, off, prior, hist>>

\* ensureDir, MarshalIndent or the open of tmp fails: saveNote returns the error.
SaveOpenFail(p) ==
  /\ pc[p] = "open"
  /\ Return(p, Failure("open: StorageUnavailable"))
  /\ UNCHANGED <<fs, cmd, argv, id, title, note, fd, off, prior, hist>>

\* One write(2) of WriteFile, at the offset of p's descriptor; after the last
\* one the file is closed.
SaveWrite(p) ==
  /\ pc[p] = "write"
  /\ LET k == off[p] + 1
         chunk == FileBytes(Marshal(note[p]))[k]
     IN /\ fs' = IF fd[p] \in DOMAIN fs
                 THEN [fs EXCEPT ![fd[p]] = File(WriteAt(@.data, k, chunk))]
                 ELSE fs
        /\ off' = [off EXCEPT ![p] = k]
        /\ pc' = [pc EXCEPT ![p] = IF k = NChunks THEN "rename" ELSE "write"]
        /\ fd' = [fd EXCEPT ![p] = IF k = NChunks THEN NoFd ELSE @]
  /\ UNCHANGED <<cmd, argv, id, title, note, prior, result, hist>>

\* A write(2) fails: WriteFile closes the file and returns the error, and
\* saveNote returns it.
SaveWriteFail(p) ==
  /\ pc[p] = "write"
  /\ Return(p, Failure("write: StorageUnavailable"))
  /\ fd' = [fd EXCEPT ![p] = NoFd]
  /\ UNCHANGED <<fs, cmd, argv, id, title, note, off, prior, hist>>

MoveFd(f, from, to) ==
  IF from = to THEN f
  ELSE IF f = from THEN to
  ELSE IF f = to THEN Unlinked
  ELSE f

\* What the command that called saveNote prints after it.
SavedOut(c, i) ==
  IF c = "add" THEN "Saved note #" \o Itoa(i) \o "\n"
  ELSE IF c = "tag" THEN "Updated tags for #" \o Itoa(i) \o "\n"
  ELSE ""

\* os.Rename(tmp, notePath(n.ID)), and the return of the command.
SaveRename(p) ==
  /\ pc[p] = "rename"
  /\ LET n == note[p]
         from == tmpPath(n.ID)
         to == notePath(n.ID)
     IN IF from \notin DOMAIN fs \/ (to \in DOMAIN fs /\ fs[to].isDir)
        THEN /\ Return(p, Failure("rename: StorageUnavailable"))
             /\ UNCHANGED <<fs, fd, hist>>
        ELSE /\ fs' = Rename(fs, from, to)
             /\ fd' = [q \in Procs |-> MoveFd(fd[q], from, to)]
             /\ Return(p, Result(TRUE, "", SavedOut(cmd[p], n.ID), <<>>))
             /\ hist' = [hist EXCEPT
                          !.last = [i \in DOMAIN @ \cup {n.ID} |->
                                      IF i = n.ID THEN p ELSE @[i]],
                          !.saved = IF cmd[p] = "save"
                                    THEN [i \in DOMAIN @ \cup {n.ID} |->
                                            IF i = n.ID THEN n ELSE @[i]]
                                    ELSE @,
                          !.assigned = IF cmd[p] = "add" THEN @ \cup {n.ID} ELSE @,
                          !.reused = IF cmd[p] = "add" /\ n.ID \in hist.assigned
                                     THEN @ \cup {n.ID} ELSE @]
  /\ UNCHANGED <<cmd, argv, id, title, note, off, prior>>

\* os.Rename fails.
SaveRenameFail(p) ==
  /\ pc[p] = "rename"
  /\ Return(p, Failure("rename: StorageUnavailable"))
  /\ UNCHANGED <<fs, cmd, argv, id, title, note, fd, off, prior, hist>>

\* ------------------------------------------------------------------ cmdAdd
\* cmdAdd up to the call of openEditor: the usage check, the title, loadAll
\* and nextID.
cmdAddLoad(p, args) ==
  /\ Begin(p, "add", args)
  /\ IF Len(args) = 0
     THEN /\ Return(p, Failure("usage: add <title>"))
          /\ id' = [id EXCEPT ![p] = 0]
          /\ title' = [title EXCEPT ![p] = ""]
     ELSE /\ nextID(loadAll(fs)) <= MaxId
          /\ title' = [title EXCEPT ![p] = Join(args, " ")]
          /\ id' = [id EXCEPT ![p] = nextID(loadAll(fs))]
          /\ pc' = [pc EXCEPT ![p] = "edit"]
          /\ UNCHANGED result
  /\ UNCHANGED <<fs, note, fd, off, prior, hist>>

\* openEditor returns the body; the note is built and saveNote is called.
cmdAddEdit(p, body, sec) ==
  /\ pc[p] = "edit"
  /\ EnterSave(p, Note(id[p], title[p], body, <<>>, TimeUTC(TimeNow(sec))))
  /\ UNCHANGED <<fs, cmd, argv, id, title, fd, result, hist>>

\* openEditor fails: cmdAdd returns "editor error".
cmdAddEditFail(p) ==
  /\ pc[p] = "edit"
  /\ Return(p, Failure("editor error"))
  /\ UNCHANGED <<fs, cmd, argv, id, title, note, fd, off, prior, hist>>

\* ------------------------------------------------------------------ cmdTag
\* cmdTag up to the call of saveNote: the usage check, Atoi, loadNote, the
\* append of the new tags and the dedupe.
cmdTagLoad(p, args) ==
  /\ Begin(p, "tag", args)
  /\ title' = [title EXCEPT ![p] = ""]
  /\ LET a == IF Len(args) < 2 THEN [ok |-> FALSE, val |-> 0] ELSE Atoi(args[1])
         ld == loadNote(fs, a.val)
     IN /\ id' = [id EXCEPT ![p] = a.val]
        /\ IF Len(args) < 2
           THEN /\ Return(p, Failure("usage: tag <id> tag1 [tag2 ...]"))
                /\ UNCHANGED <<note, prior, off>>
           ELSE IF ~a.ok
           THEN /\ Return(p, Failure("InvalidArgument"))
                /\ UNCHANGED <<note, prior, off>>
           ELSE IF ~ld.ok
           THEN /\ Return(p, Failure(ld.err))
                /\ UNCHANGED <<note, prior, off>>
           ELSE /\ EnterSave(p, [ld.note EXCEPT !.Tags = AddTags(@, Tail(args))])
                /\ UNCHANGED result
  /\ UNCHANGED <<fs, fd, hist>>

\* ----------------------------------------------------------------- cmdView
cmdView(p, args) ==
  /\ Begin(p, "view", args)
  /\ LET a == IF Len(args) = 0 THEN [ok |-> FALSE, val |-> 0] ELSE Atoi(args[1])
         ld == loadNote(fs, a.val)
     IN /\ id' = [id EXCEPT ![p] = a.val]
        /\ Return(p, IF Len(args) = 0 THEN Failure("usage: view <id>")
                     ELSE IF ~a.ok THEN Failure("InvalidArgument")
                     ELSE IF ~ld.ok THEN Failure(ld.err)
                     ELSE Result(TRUE, "",
                                 "# " \o ld.note.Title \o "\n\n" \o ld.note.Body \o "\n",
                                 <<ld.note>>))
  /\ UNCHANGED <<fs, title, note, fd, off, prior, hist>>

\* ----------------------------------------------------------------- cmdList
\* The %3d verb: right-aligned in three columns
RECURSIVE PadSpace(_, _)
PadSpace(s, width) == IF Len(s) >= width THEN s ELSE PadSpace(" " \o s, width)

RECURSIVE ListLines(_)
ListLines(notes) ==
  IF notes = <<>> THEN ""
  ELSE LET n == Head(notes)
       IN PadSpace(Itoa(n.ID), 3) \o "  " \o n.Title \o " - " \o Join(n.Tags, ",")
            \o "\n" \o ListLines(Tail(notes))

cmdList(p) ==
  /\ Begin(p, "list", <<>>)
  /\ LET notes == loadAll(fs)
     IN Return(p, Result(TRUE, "",
                         IF Len(notes) = 0 THEN "No notes.\n"
                         ELSE "ID  Title - tags\n" \o ListLines(notes),
                         notes))
  /\ UNCHANGED <<fs, id, title, note, fd, off, prior, hist>>

\* ------------------------------------------------------ the store's client
\* A caller of the store saves a note.
StoreSave(p, n) ==
  /\ Begin(p, "save", <<>>)
  /\ id' = [id EXCEPT ![p] = n.ID]
  /\ EnterSave(p, n)
  /\ hist' = [hist EXCEPT !.called = @ \cup {n.ID},
                          !.dup = @ \/ n.ID \in hist.called]
  /\ UNCHANGED <<fs, title, fd, result>>

\* --------------------------------------------------------- the environment
\* The user deletes a note file by hand.
ManualDelete(i) ==
  /\ notePath(i) \in DOMAIN fs
  /\ fs' = Remove(fs, notePath(i))
  /\ fd' = [q \in Procs |-> IF fd[q] = notePath(i) THEN Unlinked ELSE fd[q]]
  /\ UNCHANGED <<pc, cmd, argv, id, title, note, off, prior, result, hist>>

\* Something that is no note appears in notes_db while no command runs.
PutJunk(nm, entry) ==
  /\ \A p \in Procs : pc[p] = "idle"
  /\ nm \notin DOMAIN fs
  /\ fs' = Put(fs, nm, entry)
  /\ UNCHANGED <<pc, cmd, argv, id, title, note, fd, off, prior, result, hist>>

\* ------------------------------------------------------------------ inputs
AddArgs == {<<>>, <<"a", "b">>}
Bodies == {"", "x"}
Clock == {10}
TagArgs == {<<"1">>, <<"x", "t">>, <<"1", "t">>, <<"2", "t">>, <<"3", "t">>}

TagArgsRich ==
  {<<"1">>, <<"x", "a">>, <<"2", "a">>,
   <<"1", "a", "a", "b">>, <<"1", "b", "c">>, <<"1", " a ", "  ">>,
   <<"1", BadByte>>}

PlainNote(i) == Note(i, "a", "", <<>>, TimeUTC(TimeNow(10)))
RichNote(i) == Note(i, "a<b", "say \"hi\"", <<"t", "u">>, TimeUTC(TimeNow(20)))
BadNote(i) == Note(i, "a", "caf" \o BadByte, <<>>, TimeUTC(TimeNow(10)))

ValidNotes == UNION {{PlainNote(i), RichNote(i)} : i \in 1..MaxStoreId}
FailNotes == UNION {{PlainNote(i), BadNote(i)} : i \in 1..MaxStoreId}

Junk ==
  {<<dbDir \o "/sub", DirEntry>>,
   <<dbDir \o "/readme.md", File(Garbage)>>,
   <<dbDir \o "/copy.json", File(Garbage)>>,
   <<dbDir \o "/copy.json", File(FileBytes(Marshal(PlainNote(1))))>>,
   <<tmpPath(MaxStoreId), File(<<>>)>>}

\* ---------------------------------------------------------- specifications
\* One invocation of add or tag after the other, and the user's deletions.
Next ==
  \/ \E args \in AddArgs : cmdAddLoad(1, args)
  \/ \E body \in Bodies, sec \in Clock : cmdAddEdit(1, body, sec)
  \/ cmdAddEditFail(1)
  \/ \E args \in TagArgs : cmdTagLoad(1, args)
  \/ SaveOpen(1)
  \/ SaveWrite(1)
  \/ SaveRename(1)
  \/ Exit(1)
  \/ \E i \in 1..MaxId : ManualDelete(i)

Spec == Init /\ [][Next]_vars

\* Notes are added and one of them is tagged again and again.
NextTag ==
  \/ cmdAddLoad(1, <<"n">>)
  \/ cmdAddEdit(1, "", 10)
  \/ \E args \in TagArgsRich : cmdTagLoad(1, args)
  \/ SaveOpen(1)
  \/ SaveWrite(1)
  \/ SaveRename(1)
  \/ Exit(1)

SpecTag == Init /\ [][NextTag]_vars

\* A caller of the store: Save, LoadOne and LoadAll (as view and list), in a
\* directory that also holds entries that are no notes.
NextStore ==
  \/ \E n \in ValidNotes : StoreSave(1, n)
  \/ SaveOpen(1)
  \/ SaveWrite(1)
  \/ SaveRename(1)
  \/ \E i \in 1..MaxStoreId : cmdView(1, <<Itoa(i)>>)
  \/ cmdList(1)
  \/ Exit(1)
  \/ \E j \in Junk : PutJunk(j[1], j[2])

SpecStore == Init /\ [][NextStore]_vars

\* A caller of the store whose Save can fail at every step.
NextFail ==
  \/ \E n \in FailNotes : StoreSave(1, n)
  \/ SaveOpen(1)
  \/ SaveOpenFail(1)
  \/ SaveWrite(1)
  \/ SaveWriteFail(1)
  \/ SaveRename(1)
  \/ SaveRenameFail(1)
  \/ \E i \in 1..MaxStoreId : cmdView(1, <<Itoa(i)>>)
  \/ Exit(1)

SpecFail == Init /\ [][NextFail]_vars

\* Two invocations of add run at once, each once, and a reader reads.
ConcTitle(p) == IF p = 1 THEN "one" ELSE "two"

NextConc ==
  \/ \E p \in {1, 2} : cmdAddLoad(p, <<ConcTitle(p)>>)
  \/ \E p \in {1, 2} : cmdAddEdit(p, "", 10)
  \/ \E p \in {1, 2} : SaveOpen(p)
  \/ \E p \in {1, 2} : SaveWrite(p)
  \/ \E p \in {1, 2} : SaveRename(p)
  \/ \E i \in 1..2 : cmdView(3, <<Itoa(i)>>)
  \/ cmdList(3)
  \/ Exit(3)

SpecConc == Init /\ [][NextConc]_vars

\* ------------------------------------------------------------------ claims
Saving(p) == pc[p] \in {"open", "write", "rename"}
Failed(p) == pc[p] = "done" /\ ~result[p].ok
Succeeded(p) == pc[p] = "done" /\ result[p].ok

\* The directory that holds only what was at the final path of p's note when
\* saveNote was entered.
PriorDir(p) ==
  IF prior[p].exists THEN Put(EmptyDir, notePath(note[p].ID), prior[p].entry)
  ELSE EmptyDir

\* C1: while saveNote runs up to its rename, and after it has failed at any
\* step, the final path of the note holds exactly what it held when saveNote
\* was entered, and LoadOne of the id returns what it would have returned
\* then: the prior record or not-found, never a partly written record.
C1_FailedSaveKeepsPriorRecord ==
  \A p \in Procs :
    (cmd[p] = "save" /\ (Saving(p) \/ Failed(p))) =>
      /\ Lookup(fs, notePath(note[p].ID)) = prior[p]
      /\ loadNote(fs, note[p].ID) = loadNote(PriorDir(p), note[p].ID)
      /\ loadNote(fs, note[p].ID).err \in {"", "NotFound"}

\* C1 witness: a Save of a new version of an existing record failed after a
\* partial write of the temporary file.
C1_Witness ==
  \E p \in Procs :
    /\ cmd[p] = "save" /\ Failed(p)
    /\ result[p].err = "write: StorageUnavailable"
    /\ prior[p].exists
    /\ loadNote(fs, note[p].ID).ok
    /\ loadNote(fs, note[p].ID).note # note[p]
    /\ tmpPath(note[p].ID) \in DOMAIN fs
    /\ Len(fs[tmpPath(note[p].ID)].data) \in 1..(NChunks - 1)

\* C9: when saveNote has created its temporary file and then returns an
\* error, the temporary file is gone.
C9_TempFileRemovedOnError ==
  \A p \in Procs :
    (/\ cmd[p] = "save" /\ Failed(p)
     /\ result[p].err \in {"write: StorageUnavailable", "rename: StorageUnavailable"})
      => tmpPath(note[p].ID) \notin DOMAIN fs

\* The ids of the records in the store: those of the regular *.json files
\* whose content parses.
StoreIds == {ReadNote(fs, nm).note.ID : nm \in Loadable(fs)}

MaxOf(S) == CHOOSE m \in S : \A x \in S : x <= m

\* C3: NextID of the result of LoadAll is greater than every id in the store,
\* is one more than the largest of them, and is 1 when the store is empty.
C3_NextIDAboveEveryId ==
  LET next == nextID(loadAll(fs))
  IN /\ \A i \in StoreIds : next > i
     /\ StoreIds # {} => next = 1 + MaxOf(StoreIds)
     /\ StoreIds = {} => next = 1

\* C3 witness: the store holds a record of id 2 and none of id 1, beside
\* entries that are no notes.
C3_Witness ==
  /\ StoreIds = {2}
  /\ nextID(loadAll(fs)) = 3
  /\ DOMAIN fs \ {notePath(2)} # {}

\* The notes the client saved, by ascending id.
RECURSIVE SavedFrom(_)
SavedFrom(i) ==
  IF i > MaxStoreId THEN <<>>
  ELSE (IF i \in DOMAIN hist.saved THEN <<hist.saved[i]>> ELSE <<>>) \o SavedFrom(i + 1)

\* C5: after Save calls with pairwise distinct ids, whatever other entries
\* the directory holds, LoadAll succeeds and returns exactly the saved
\* notes by ascending id (the empty sequence when nothing was saved).
C5_LoadAllReturnsSavedNotes ==
  \A p \in Procs :
    (cmd[p] = "list" /\ pc[p] = "done" /\ ~hist.dup) =>
      /\ result[p].ok
      /\ result[p].notes = SavedFrom(1)

\* C6: after a successful Save(n), LoadOne(n.ID) returns a record equal to n
\* in every field, whether or not the id had a record before.
C6_SaveThenLoadOneReturnsNote ==
  \A p \in Procs :
    (cmd[p] = "save" /\ Succeeded(p)) =>
      loadNote(fs, note[p].ID) = [ok |-> TRUE, err |-> "", note |-> note[p]]

NoDuplicates(seq) == \A i, j \in 1..Len(seq) : i # j => seq[i] # seq[j]
Elems(seq) == {seq[i] : i \in 1..Len(seq)}
FirstIndex(seq, x) == CHOOSE i \in 1..Len(seq) : seq[i] = x /\ \A j \in 1..(i - 1) : seq[j] # x

\* res lists every element of src once, in the order of first appearance.
InFirstOccurrenceOrder(res, src) ==
  /\ NoDuplicates(res)
  /\ Elems(res) = Elems(src)
  /\ \A i, j \in 1..Len(res) : i < j => FirstIndex(src, res[i]) < FirstIndex(src, res[j])

\* The tags a tag command supplies: trimmed, the empty ones dropped.
Supplied(newTags) ==
  SelectSeq([i \in 1..Len(newTags) |-> TrimSpace(newTags[i])], LAMBDA t : t # "")

\* What a tag list reads back as once saved.
Persisted(tags) == [i \in 1..Len(tags) |-> DecodeString(EncodeString(tags[i]))]

\* C7: every persisted tag list is free of duplicates and of entries that are
\* empty after trimming; after a tag command it lists the existing tags
\* followed by the supplied ones in order of first appearance; and the same
\* tag command applied again leaves the persisted tags as they are.
C7_TagsDedupedOrderedIdempotent ==
  /\ \A nm \in Loadable(fs) :
       LET tags == ReadNote(fs, nm).note.Tags
       IN NoDuplicates(tags) /\ \A i \in 1..Len(tags) : TrimSpace(tags[i]) # ""
  /\ \A p \in Procs :
       (cmd[p] = "tag" /\ Succeeded(p)) =>
         LET old == loadNote(PriorDir(p), id[p]).note.Tags
             now == loadNote(fs, id[p]).note.Tags
         IN /\ InFirstOccurrenceOrder(now, old \o Supplied(Tail(argv[p])))
            /\ Persisted(AddTags(now, Tail(argv[p]))) = now

\* C4 as claimed: no add assigns an id that an earlier add assigned, and the
\* ids are positive.
C4_IdsNeverReused ==
  /\ hist.reused = {}
  /\ \A i \in hist.assigned : i >= 1

\* C4 as amended: the id of an add is positive and greater than the id of
\* every record in the store, from the moment it is computed until the note
\* is saved, and then it is the greatest id in the store; every record sits
\* at the path of its own id, and a tag command saves the note it loaded
\* under the id it loaded it by.
C4_AddIdAboveEveryStoredId ==
  /\ \A p \in Procs :
       (cmd[p] = "add" /\ (pc[p] = "edit" \/ Saving(p))) =>
         id[p] >= 1 /\ \A i \in StoreIds : i < id[p]
  /\ \A p \in Procs :
       (cmd[p] = "add" /\ Succeeded(p)) =>
         /\ id[p] >= 1 /\ \A i \in StoreIds : i <= id[p]
         /\ loadNote(fs, id[p]).ok => loadNote(fs, id[p]).note = note[p]
  /\ \A nm \in Loadable(fs) : nm = notePath(ReadNote(fs, nm).note.ID)
  /\ \A p \in Procs :
       (cmd[p] = "tag" /\ (Saving(p) \/ Succeeded(p))) =>
         note[p].ID = id[p] /\ loadNote(PriorDir(p), id[p]).note.ID = id[p]

\* C4 witness: an add has saved note 3 while note 2 is in the store and note
\* 1, assigned earlier, was deleted by hand: the free id 1 was not taken.
C4_Witness ==
  \E p \in Procs :
    /\ cmd[p] = "add" /\ Succeeded(p) /\ id[p] = 3
    /\ StoreIds = {2, 3}
    /\ 1 \in hist.assigned

\* C10: the blocking editor capture does not lie between the computation of
\* the id (LoadAll, NextID) and the Save that uses it: while the editor runs
\* the id of the note is not computed yet.
C10_IdComputedAfterEditor ==
  \A p \in Procs : pc[p] = "edit" => id[p] = 0

\* C2: a reader never observes a partly written file: LoadOne of an id never
\* finds a file at the final path that does not parse, and every record
\* LoadOne or LoadAll returns is the complete note of one Save.
C2_ReaderNeverSeesPartialFile ==
  \A r \in Procs :
    (cmd[r] \in {"view", "list"} /\ pc[r] = "done") =>
      /\ result[r].err # "CorruptRecord"
      /\ \A k \in 1..Len(result[r].notes) :
           \E p \in Procs : cmd[p] = "add" /\ result[r].notes[k] = note[p]

\* C8: when two concurrent adds have both reported success for the same id,
\* the store holds one note only: that of the add whose rename came last;
\* the note of the other add is gone.
C8_SecondSaveOverwritesFirst ==
  \A p, q \in Procs :
    (/\ p # q
     /\ cmd[p] = "add" /\ Succeeded(p)
     /\ cmd[q] = "add" /\ Succeeded(q)
     /\ id[p] = id[q]
     /\ hist.last[id[p]] = q) =>
      /\ loadAll(fs) = <<note[q]>>
      /\ loadNote(fs, id[p]).note # note[p]

\* C8 witness: both adds loaded the same snapshot, computed the same id and
\* printed "Saved note #1", for two different notes.
C8_Witness ==
  /\ cmd[1] = "add" /\ Succeeded(1) /\ result[1].out = "Saved note #1\n"
  /\ cmd[2] = "add" /\ Succeeded(2) /\ result[2].out = "Saved note #1\n"
  /\ note[1] # note[2]
  /\ Len(loadAll(fs)) = 1

====
